---- MODULE Spec2Model ----
(***************************************************************************)
(* Model of the data-quality dashboard router (src/src/routers/            *)
(* data_quality.py) with its dependencies (src/src/dependencies.py) and    *)
(* request schemas (src/src/schemas/).                                     *)
(*                                                                         *)
(* Strings the code manipulates character by character (the group_by      *)
(* tokens) are sequences of one-character strings, so that lower(),        *)
(* replace() and strip() are computed.  Optional values are <<>> (None)    *)
(* or <<v>> (a value).                                                     *)
(***************************************************************************)
EXTENDS Integers, Sequences, FiniteSets, TLC

VARIABLES
    store,   \* the score-definition table of the scoring store: id -> <<>> | <<definition>>
    last,    \* the request handled last: its parameters, response and the calls it made
    nreq,    \* number of requests handled so far
    probe,   \* application of the group_by normalisation to a token (SpecNormalize)
    slot,    \* _current_session_wrapper.value on each worker thread (SpecInFlight)
    idle,    \* the idle worker threads, the one that became idle last at the end
    session, \* the session opened for each request in flight: none, open or closed
    rq       \* the requests in flight: the position of each and what it has seen

\* the state of the requests in flight and of the worker threads
flight == <<slot, idle, session, rq>>

vars == <<store, last, nreq, probe, slot, idle, session, rq>>

----------------------------------------------------------------------------
(* Bounds of the model *)

\* requests handled in one behaviour
MaxRequests == 1
\* history entries a definition can accumulate
MaxHistory == 2
\* whitespace characters put around a token handed to the normalisation
MaxPad == 1

None == <<>>
Some(v) == <<v>>

----------------------------------------------------------------------------
(* Category vocabulary: class GroupByCategory and the tokens around it *)

column_name == <<"c", "o", "l", "u", "m", "n", "_", "n", "a", "m", "e">>
table_name == <<"t", "a", "b", "l", "e", "_", "n", "a", "m", "e">>
dq_dimension == <<"d", "q", "_", "d", "i", "m", "e", "n", "s", "i", "o", "n">>
semantic_data_type == <<"s", "e", "m", "a", "n", "t", "i", "c", "_", "d", "a", "t", "a", "_", "t", "y", "p", "e">>
table_groups_name == <<"t", "a", "b", "l", "e", "_", "g", "r", "o", "u", "p", "s", "_", "n", "a", "m", "e">>
data_location == <<"d", "a", "t", "a", "_", "l", "o", "c", "a", "t", "i", "o", "n">>
data_source == <<"d", "a", "t", "a", "_", "s", "o", "u", "r", "c", "e">>
source_system == <<"s", "o", "u", "r", "c", "e", "_", "s", "y", "s", "t", "e", "m">>
source_process == <<"s", "o", "u", "r", "c", "e", "_", "p", "r", "o", "c", "e", "s", "s">>
business_domain == <<"b", "u", "s", "i", "n", "e", "s", "s", "_", "d", "o", "m", "a", "i", "n">>
stakeholder_group == <<"s", "t", "a", "k", "e", "h", "o", "l", "d", "e", "r", "_", "g", "r", "o", "u", "p">>
transform_level == <<"t", "r", "a", "n", "s", "f", "o", "r", "m", "_", "l", "e", "v", "e", "l">>
data_product == <<"d", "a", "t", "a", "_", "p", "r", "o", "d", "u", "c", "t">>

\* the member values of the str-Enum GroupByCategory
GroupByCategory ==
    { column_name, table_name, dq_dimension, semantic_data_type, table_groups_name,
      data_location, data_source, source_system, source_process, business_domain,
      stakeholder_group, transform_level, data_product }

\* the Literal of the category field of DashboardCreate and DashboardUpdate
CategoryLiteral ==
    { table_groups_name, data_location, data_source, source_system, source_process,
      business_domain, stakeholder_group, transform_level, dq_dimension, data_product }

\* tokens that are not member values
table_group == <<"t", "a", "b", "l", "e", "_", "g", "r", "o", "u", "p">>
table_space_group == <<"t", "a", "b", "l", "e", " ", "g", "r", "o", "u", "p">>
tablegroup == <<"t", "a", "b", "l", "e", "g", "r", "o", "u", "p">>
not_a_category == <<"n", "o", "t", "_", "a", "_", "c", "a", "t", "e", "g", "o", "r", "y">>
semantic_data_typo == <<"s", "e", "m", "a", "n", "t", "i", "c", "_", "d", "a", "t", "a", "_", "t", "y", "p", "o">>
table_groups == <<"t", "a", "b", "l", "e", "_", "g", "r", "o", "u", "p", "s">>

----------------------------------------------------------------------------
(* str.lower(), str.replace("_", " "), str.strip() *)

UpperToLower ==
    [A |-> "a", B |-> "b", C |-> "c", D |-> "d", E |-> "e", F |-> "f", G |-> "g",
     H |-> "h", I |-> "i", J |-> "j", K |-> "k", L |-> "l", M |-> "m", N |-> "n",
     O |-> "o", P |-> "p", Q |-> "q", R |-> "r", S |-> "s", T |-> "t", U |-> "u",
     V |-> "v", W |-> "w", X |-> "x", Y |-> "y", Z |-> "z"]

Whitespace == {" ", "\t", "\n"}

str_lower(s) ==
    [i \in 1..Len(s) |-> IF s[i] \in DOMAIN UpperToLower THEN UpperToLower[s[i]] ELSE s[i]]

str_replace(s, old, new) ==
    [i \in 1..Len(s) |-> IF s[i] = old THEN new ELSE s[i]]

RECURSIVE str_lstrip(_)
str_lstrip(s) ==
    IF s # <<>> /\ Head(s) \in Whitespace THEN str_lstrip(Tail(s)) ELSE s

RECURSIVE str_rstrip(_)
str_rstrip(s) ==
    IF s # <<>> /\ s[Len(s)] \in Whitespace
    THEN str_rstrip(SubSeq(s, 1, Len(s) - 1))
    ELSE s

str_strip(s) == str_rstrip(str_lstrip(s))

----------------------------------------------------------------------------
(* Normalisation and validation of group_by (breakdown and issues handlers) *)

\* group_by_mapping, a dict: key -> canonical name
group_by_mapping_no_tablegroup ==
    [k \in {table_group, table_space_group} |-> table_groups_name]

group_by_mapping ==
    [k \in {table_group, table_space_group, tablegroup} |-> table_groups_name]

dict_get(d, k, default) == IF k \in DOMAIN d THEN d[k] ELSE default

\* group_by_mapping.get(group_by_value.lower().replace("_", " ").strip(), group_by_value)
normalized_group_by(group_by_value) ==
    dict_get(group_by_mapping,
             str_strip(str_replace(str_lower(group_by_value), "_", " ")),
             group_by_value)

valid_categories_short ==
    << column_name, table_name, dq_dimension, semantic_data_type, table_groups_name,
       data_location, data_source, source_system, source_process, business_domain,
       stakeholder_group, transform_level >>

valid_categories ==
    << column_name, table_name, dq_dimension, semantic_data_type, table_groups_name,
       data_location, data_source, source_system, source_process, business_domain,
       stakeholder_group, transform_level, data_product >>

SeqToSet(s) == { s[i] : i \in 1..Len(s) }

HTTP_200_OK == 200
HTTP_201_CREATED == 201
HTTP_204_NO_CONTENT == 204
HTTP_400_BAD_REQUEST == 400
HTTP_404_NOT_FOUND == 404
HTTP_422_UNPROCESSABLE_ENTITY == 422

\* The handler's normalise-then-validate step on the string value of group_by:
\* the normalised category, or the HTTPException(400) whose detail names the
\* parameter and lists valid_categories.
NormalizeGroupBy(group_by_value) ==
    LET n == normalized_group_by(group_by_value)
    IN  IF n \notin SeqToSet(valid_categories)
        THEN [ok |-> FALSE, status |-> HTTP_400_BAD_REQUEST,
              value |-> group_by_value, listed |-> valid_categories]
        ELSE [ok |-> TRUE, status |-> HTTP_200_OK, value |-> n, listed |-> <<>>]

----------------------------------------------------------------------------
(* Tokens handed to the normalisation *)

LowerToUpper ==
    [a |-> "A", b |-> "B", c |-> "C", d |-> "D", e |-> "E", f |-> "F", g |-> "G",
     h |-> "H", i |-> "I", j |-> "J", k |-> "K", l |-> "L", m |-> "M", n |-> "N",
     o |-> "O", p |-> "P", q |-> "Q", r |-> "R", s |-> "S", t |-> "T", u |-> "U",
     v |-> "V", w |-> "W", x |-> "X", y |-> "Y", z |-> "Z"]

ToUpper(s) ==
    [i \in 1..Len(s) |-> IF s[i] \in DOMAIN LowerToUpper THEN LowerToUpper[s[i]] ELSE s[i]]

Capitalized(s) ==
    [i \in 1..Len(s) |-> IF i = 1 /\ s[i] \in DOMAIN LowerToUpper THEN LowerToUpper[s[i]] ELSE s[i]]

Repeat(ch, n) == [i \in 1..n |-> ch]

TokenBases ==
    GroupByCategory \cup
    { table_group, table_space_group, tablegroup, not_a_category, semantic_data_typo,
      table_groups, <<>> }

TokenShapes(b) ==
    { b, ToUpper(b), Capitalized(b), str_replace(b, "_", " "), str_replace(b, " ", "_") }

InputTokens ==
    { Repeat(ch, l) \o sh \o Repeat(ch, r) :
        ch \in {" ", "_"}, l \in 0..MaxPad, r \in 0..MaxPad,
        sh \in UNION { TokenShapes(b) : b \in TokenBases } }

NoProbe == [phase |-> "idle", t |-> <<>>, r1 |-> <<>>, r2 |-> <<>>]

\* normalise a token
NormalizeOnce(t) ==
    /\ probe.phase = "idle"
    /\ probe' = [phase |-> "once", t |-> t, r1 |-> NormalizeGroupBy(t), r2 |-> <<>>]
    /\ UNCHANGED <<store, last, nreq, flight>>

\* normalise the result of a successful normalisation
NormalizeAgain ==
    /\ probe.phase = "once"
    /\ probe.r1.ok
    /\ probe' = [probe EXCEPT !.phase = "twice", !.r2 = NormalizeGroupBy(probe.r1.value)]
    /\ UNCHANGED <<store, last, nreq, flight>>

----------------------------------------------------------------------------
(* The scoring store and the values requests are drawn from *)

\* dashboard ids that are well-formed UUID strings, in the store's listing order
DashIdSeq == <<"d1", "d2">>
DashIds == SeqToSet(DashIdSeq)
\* a string that is no UUID; a well-formed id is unknown while its slot is empty
MalformedId == "not-a-uuid"
IdTokens == DashIds \cup {MalformedId}

Projects == {"P1", "P2"}
ProjectCodes == Projects \cup {"NOPE"}

\* DashboardFilterCreate objects of a request body
filter_1 == [field |-> "table_groups_name", value |-> "demo", others |-> <<>>]
filter_2 == [field |-> "dq_dimension", value |-> "Accuracy",
             others |-> <<[field |-> "table_name", value |-> "orders"]>>]
FilterLists == { <<>>, <<filter_1, filter_2>>, <<filter_2, filter_1>> }

\* last_history_items of the listing with history
HistoryWindow == 50

LastItems(h, n) == IF Len(h) <= n THEN h ELSE SubSeq(h, Len(h) - n + 1, Len(h))

\* ScoreDefinitionCriteria.from_filters(filters_data, group_by_field=...)
from_filters(filters_data, group_by_field) ==
    [filters |-> filters_data, group_by_field |-> group_by_field]

\* [{"field": f.field, "value": f.value, "others": f.others} for f in filters]
filters_data_without_others(filters) ==
    [i \in 1..Len(filters) |->
        [field |-> filters[i].field, value |-> filters[i].value, others |-> <<>>]]

filters_data(filters) ==
    [i \in 1..Len(filters) |->
        [field |-> filters[i].field, value |-> filters[i].value, others |-> filters[i].others]]

\* db.query(Project).filter(Project.project_code == project_code).first()
ProjectExists(project_code) == project_code \in Projects

\* ScoreDefinition.get(id): the stored definition, or None
ScoreDefinition_get(st, dashboard_id) ==
    IF dashboard_id \in DashIds THEN st[dashboard_id] ELSE None

\* ScoreDefinition.all(project_code, name_filter, sorted_by, last_history_items):
\* the matching definitions, each with the last history items loaded
Matches(st, id, project_code, name_filter) ==
    /\ st[id] # None
    /\ project_code # None => st[id][1].project_code = project_code[1]
    /\ name_filter # None => st[id][1].name = name_filter[1]

ScoreDefinition_all(st, project_code, name_filter, last_history_items) ==
    LET hit(id) == Matches(st, id, project_code, name_filter)
        ids == SelectSeq(DashIdSeq, hit)
    IN  [i \in 1..Len(ids) |->
            [st[ids[i]][1] EXCEPT !.history = LastItems(@, last_history_items)]]

\* d.as_score_card(): computed on demand, categories populated, no history
as_score_card(d) ==
    [id |-> d.id, project_code |-> d.project_code, name |-> d.name,
     score |-> IF d.total_score THEN Some("fresh") ELSE None,
     cde_score |-> IF d.cde_score THEN Some("fresh") ELSE None,
     profiling_score |-> Some("fresh"), testing_score |-> Some("fresh"),
     categories_label |-> d.category,
     categories |-> <<"fresh">>, history |-> <<>>, definition |-> Some(d)]

\* d.as_cached_score_card(include_definition): read from the results cached for
\* the definition (none before they are computed and saved) and the history the
\* definition carries; it fails in neither case
as_cached_score_card(d, include_definition) ==
    [id |-> d.id, project_code |-> d.project_code, name |-> d.name,
     score |-> IF d.has_results /\ d.total_score THEN Some("cached") ELSE None,
     cde_score |-> IF d.has_results /\ d.cde_score THEN Some("cached") ELSE None,
     profiling_score |-> IF d.has_results THEN Some("cached") ELSE None,
     testing_score |-> IF d.has_results THEN Some("cached") ELSE None,
     categories_label |-> d.category,
     categories |-> IF d.has_results /\ d.category # None THEN <<"cached">> ELSE <<>>,
     history |-> LastItems(d.history, HistoryWindow),
     definition |-> IF include_definition THEN Some(d) ELSE None]

\* format_score_card(score_card): the fields of a DashboardResponse
format_score_card(score_card) ==
    [id |-> score_card.id, project_code |-> score_card.project_code,
     name |-> score_card.name, score |-> score_card.score,
     cde_score |-> score_card.cde_score,
     profiling_score |-> score_card.profiling_score,
     testing_score |-> score_card.testing_score,
     categories_label |-> score_card.categories_label,
     categories |-> score_card.categories, history |-> score_card.history]

\* a call made on the engine, the store or the query facility
Call(fn, on, args) == [fn |-> fn, on |-> on, args |-> args]

EngineOperations ==
    { "save", "delete", "run_refresh_score_cards_results", "as_score_card",
      "as_cached_score_card", "get_score_card_breakdown", "get_score_card_issues" }

----------------------------------------------------------------------------
(* src/dependencies.py *)

\* UUID(dashboard_id) raises ValueError
UUID_ValueError(dashboard_id) == dashboard_id = MalformedId

\* validate_project_code: the project query, then 404 when there is no such project
validate_project_code_unchecked(project_code) ==
    [ok |-> TRUE, status |-> HTTP_200_OK,
     calls |-> <<Call("Project.query", project_code, <<>>)>>]

validate_project_code(project_code) ==
    [ok |-> ProjectExists(project_code),
     status |-> IF ProjectExists(project_code) THEN HTTP_200_OK ELSE HTTP_404_NOT_FOUND,
     calls |-> <<Call("Project.query", project_code, <<>>)>>]

\* validate_dashboard_id: 400 when the id is no UUID, before any lookup; 404 when
\* ScoreDefinition.get finds nothing; otherwise the definition
validate_dashboard_id(st, dashboard_id) ==
    IF UUID_ValueError(dashboard_id)
    THEN [ok |-> FALSE, status |-> HTTP_400_BAD_REQUEST, dashboard |-> None, calls |-> <<>>]
    ELSE IF ScoreDefinition_get(st, dashboard_id) = None
    THEN [ok |-> FALSE, status |-> HTTP_404_NOT_FOUND, dashboard |-> None,
          calls |-> <<Call("ScoreDefinition.get", dashboard_id, <<>>)>>]
    ELSE [ok |-> TRUE, status |-> HTTP_200_OK,
          dashboard |-> ScoreDefinition_get(st, dashboard_id),
          calls |-> <<Call("ScoreDefinition.get", dashboard_id, <<>>)>>]

----------------------------------------------------------------------------
(* The request handlers of src/routers/data_quality.py.  Each action is one   *)
(* request handled from its validation to its response.                       *)

NoRequest == [op |-> "none", req |-> <<>>, status |-> 0, body |-> <<>>, calls |-> <<>>]

Handled(op, req, status, body, calls, st) ==
    /\ nreq < MaxRequests
    /\ nreq' = nreq + 1
    /\ last' = [op |-> op, req |-> req, status |-> status, body |-> body, calls |-> calls]
    /\ store' = st
    /\ UNCHANGED <<probe, flight>>

ErrorBody == <<>>

\* POST /dashboards
create_dashboard(dashboard) ==
    LET v == validate_project_code(dashboard.project_code)
    IN  IF ~v.ok
        THEN Handled("create_dashboard", dashboard, v.status, ErrorBody, v.calls, store)
        ELSE \E new_id \in { i \in DashIds : store[i] = None } :
            LET criteria == from_filters(filters_data(dashboard.filters),
                                         dashboard.group_by_field)
                score_def == [id |-> new_id,
                              project_code |-> dashboard.project_code,
                              name |-> dashboard.name,
                              total_score |-> dashboard.total_score,
                              cde_score |-> dashboard.cde_score,
                              category |-> dashboard.category,
                              criteria |-> criteria,
                              history |-> <<>>,
                              \* as_score_card(save_to_cache=True)
                              has_results |-> TRUE]
                score_card == as_score_card(score_def)
            IN  Handled("create_dashboard", dashboard, HTTP_201_CREATED,
                        format_score_card(score_card),
                        v.calls \o
                        << Call("from_filters", new_id,
                                [filters |-> filters_data(dashboard.filters),
                                 group_by_field |-> dashboard.group_by_field]),
                           Call("save", new_id, <<>>),
                           Call("as_score_card", new_id, [save_to_cache |-> TRUE]) >>,
                        [store EXCEPT ![new_id] = Some(score_def)])

\* the calls and the item of one definition in a listing with scores or history
list_item_card_all_cached(d, include_history) ==
    IF include_history /\ d.history # <<>>
    THEN [as_cached_score_card(d, FALSE) EXCEPT !.definition = Some(d)]
    ELSE as_score_card(d)

list_item_card(d, include_history) ==
    IF include_history /\ d.history # <<>>
    THEN [as_score_card(d) EXCEPT
            !.history = as_cached_score_card(d, FALSE).history]
    ELSE as_score_card(d)

list_item_calls(d, include_history) ==
    <<Call("as_score_card", d.id, [save_to_cache |-> FALSE])>> \o
    ( IF include_history /\ d.history # <<>>
      THEN <<Call("as_cached_score_card", d.id, [include_definition |-> FALSE])>>
      ELSE <<>> )

RECURSIVE Flatten(_)
Flatten(ss) == IF ss = <<>> THEN <<>> ELSE Head(ss) \o Flatten(Tail(ss))

\* the basic summary item of a definition
summary_item_scored(d) == format_score_card(as_score_card(d))

summary_item(d) ==
    [id |-> d.id, project_code |-> d.project_code, name |-> d.name,
     score |-> None, cde_score |-> None, profiling_score |-> None,
     testing_score |-> None, categories_label |-> d.category,
     categories |-> <<>>, history |-> <<>>]

\* GET /dashboards
list_dashboards(project_code, name_filter, include_scores, include_history) ==
    LET req == [project_code |-> project_code, name_filter |-> name_filter,
                include_scores |-> include_scores, include_history |-> include_history]
        v == IF project_code # None
             THEN validate_project_code(project_code[1])
             ELSE [ok |-> TRUE, status |-> HTTP_200_OK, calls |-> <<>>]
        history_items == IF include_history THEN HistoryWindow ELSE 0
        definitions == ScoreDefinition_all(store, project_code, name_filter, history_items)
        all_call == <<Call("ScoreDefinition.all", "",
                           [project_code |-> project_code, name_filter |-> name_filter,
                            last_history_items |-> history_items])>>
    IN  IF ~v.ok
        THEN Handled("list_dashboards", req, v.status, ErrorBody, v.calls, store)
        ELSE IF include_scores \/ include_history
        THEN Handled("list_dashboards", req, HTTP_200_OK,
                     [i \in 1..Len(definitions) |->
                        format_score_card(list_item_card(definitions[i], include_history))],
                     v.calls \o all_call \o
                     Flatten([i \in 1..Len(definitions) |->
                                list_item_calls(definitions[i], include_history)]),
                     store)
        ELSE Handled("list_dashboards", req, HTTP_200_OK,
                     [i \in 1..Len(definitions) |-> summary_item(definitions[i])],
                     v.calls \o all_call, store)


\* next((d for d in definitions if str(d.id) == dashboard_id), dashboard)
reloaded_last_listed(definitions, dashboard_id, dashboard) ==
    IF definitions # <<>> THEN definitions[Len(definitions)] ELSE dashboard

reloaded(definitions, dashboard_id, dashboard) ==
    LET same(d) == d.id = dashboard_id
        found == SelectSeq(definitions, same)
    IN  IF found # <<>> THEN found[1] ELSE dashboard

\* "if include_history:", the gate of the reload with history
reloads_with_history_always(include_history) == TRUE

reloads_with_history(include_history) == include_history

\* GET /dashboards/{dashboard_id}
get_dashboard(dashboard_id, include_history) ==
    LET req == [dashboard_id |-> dashboard_id, include_history |-> include_history]
        v == validate_dashboard_id(store, dashboard_id)
        definitions == ScoreDefinition_all(store, Some(v.dashboard[1].project_code),
                                           None, HistoryWindow)
        dashboard == IF reloads_with_history(include_history)
                     THEN reloaded(definitions, dashboard_id, v.dashboard[1])
                     ELSE v.dashboard[1]
        all_call == IF reloads_with_history(include_history)
                    THEN <<Call("ScoreDefinition.all", "",
                                [project_code |-> Some(v.dashboard[1].project_code),
                                 name_filter |-> None,
                                 last_history_items |-> HistoryWindow])>>
                    ELSE <<>>
    IN  IF ~v.ok
        THEN Handled("get_dashboard", req, v.status, ErrorBody, v.calls, store)
        ELSE Handled("get_dashboard", req, HTTP_200_OK,
                     format_score_card(as_cached_score_card(dashboard, TRUE)),
                     v.calls \o all_call \o
                     <<Call("as_cached_score_card", dashboard.id,
                            [include_definition |-> TRUE])>>,
                     store)

\* group_by: GroupByCategory = Query(...): a value that is no member of the enum
\* fails the validation of the request parameters, and the handler is not called
group_by_is_member(group_by) == group_by \in GroupByCategory

\* GET /dashboards/{dashboard_id}/breakdown
get_dashboard_breakdown(dashboard_id, score_type, group_by) ==
    LET req == [dashboard_id |-> dashboard_id, score_type |-> score_type,
                group_by |-> group_by]
        v == validate_dashboard_id(store, dashboard_id)
        n == NormalizeGroupBy(group_by)
    IN  IF ~group_by_is_member(group_by)
        THEN Handled("get_dashboard_breakdown", req, HTTP_422_UNPROCESSABLE_ENTITY,
                     ErrorBody, <<>>, store)
        ELSE IF ~v.ok
        THEN Handled("get_dashboard_breakdown", req, v.status, ErrorBody, v.calls, store)
        ELSE IF ~n.ok
        THEN Handled("get_dashboard_breakdown", req, n.status,
                     [invalid |-> n.value, valid |-> n.listed], v.calls, store)
        ELSE Handled("get_dashboard_breakdown", req, HTTP_200_OK,
                     <<[category |-> n.value, score_type |-> score_type]>>,
                     v.calls \o
                     <<Call("get_score_card_breakdown", dashboard_id,
                            [score_type |-> score_type, group_by |-> n.value])>>,
                     store)

\* GET /dashboards/{dashboard_id}/issues
get_dashboard_issues(dashboard_id, score_type, group_by, value) ==
    LET req == [dashboard_id |-> dashboard_id, score_type |-> score_type,
                group_by |-> group_by, value |-> value]
        v == validate_dashboard_id(store, dashboard_id)
        n == NormalizeGroupBy(group_by)
    IN  IF ~group_by_is_member(group_by)
        THEN Handled("get_dashboard_issues", req, HTTP_422_UNPROCESSABLE_ENTITY,
                     ErrorBody, <<>>, store)
        ELSE IF ~v.ok
        THEN Handled("get_dashboard_issues", req, v.status, ErrorBody, v.calls, store)
        ELSE IF ~n.ok
        THEN Handled("get_dashboard_issues", req, n.status,
                     [invalid |-> n.value, valid |-> n.listed], v.calls, store)
        ELSE Handled("get_dashboard_issues", req, HTTP_200_OK,
                     <<[category |-> n.value, score_type |-> score_type, value |-> value]>>,
                     v.calls \o
                     <<Call("get_score_card_issues", dashboard_id,
                            [score_type |-> score_type, group_by |-> n.value,
                             value |-> value])>>,
                     store)

\* the fields of the definition after the "Update fields" assignments
updated_fields(dashboard, updates) ==
    [dashboard EXCEPT
        !.name = IF updates.name # None THEN updates.name[1] ELSE @,
        !.total_score = IF updates.total_score # None THEN updates.total_score[1] ELSE @,
        !.cde_score = IF updates.cde_score # None THEN updates.cde_score[1] ELSE @,
        !.category = IF updates.category # None THEN updates.category ELSE @]

\* the criteria of the definition after "Update filters if provided"
updated_criteria_keep_group_by(dashboard, updates) ==
    IF updates.filters # None
    THEN from_filters(filters_data(updates.filters[1]),
                      IF updates.group_by_field # None
                      THEN updates.group_by_field[1]
                      ELSE dashboard.criteria.group_by_field)
    ELSE dashboard.criteria

updated_criteria_group_by_alone(dashboard, updates) ==
    IF updates.filters # None
    THEN from_filters(filters_data(updates.filters[1]),
                      IF updates.group_by_field # None
                      THEN updates.group_by_field[1]
                      ELSE TRUE)
    ELSE IF updates.group_by_field # None
    THEN [dashboard.criteria EXCEPT !.group_by_field = updates.group_by_field[1]]
    ELSE dashboard.criteria

updated_criteria(dashboard, updates) ==
    IF updates.filters # None
    THEN from_filters(filters_data(updates.filters[1]),
                      IF updates.group_by_field # None
                      THEN updates.group_by_field[1]
                      ELSE TRUE)
    ELSE dashboard.criteria

\* PUT /dashboards/{dashboard_id}
update_dashboard(dashboard_id, updates) ==
    LET req == [dashboard_id |-> dashboard_id, updates |-> updates]
        v == validate_dashboard_id(store, dashboard_id)
        dashboard == [updated_fields(v.dashboard[1], updates) EXCEPT
                        !.criteria = updated_criteria(v.dashboard[1], updates)]
    IN  IF ~v.ok
        THEN Handled("update_dashboard", req, v.status, ErrorBody, v.calls, store)
        ELSE Handled("update_dashboard", req, HTTP_200_OK,
                     format_score_card(as_cached_score_card(dashboard, TRUE)),
                     v.calls \o
                     ( IF updates.filters # None
                       THEN <<Call("from_filters", dashboard_id,
                                   [filters |-> dashboard.criteria.filters,
                                    group_by_field |-> dashboard.criteria.group_by_field])>>
                       ELSE <<>> ) \o
                     << Call("save", dashboard_id, <<>>),
                        Call("as_cached_score_card", dashboard_id,
                             [include_definition |-> TRUE]) >>,
                     [store EXCEPT ![dashboard_id] = Some(dashboard)])

\* DELETE /dashboards/{dashboard_id}
delete_dashboard(dashboard_id) ==
    LET req == [dashboard_id |-> dashboard_id]
        v == validate_dashboard_id(store, dashboard_id)
    IN  IF ~v.ok
        THEN Handled("delete_dashboard", req, v.status, ErrorBody, v.calls, store)
        ELSE Handled("delete_dashboard", req, HTTP_204_NO_CONTENT, <<>>,
                     v.calls \o <<Call("delete", dashboard_id, <<>>)>>,
                     [store EXCEPT ![dashboard_id] = None])

\* run_refresh_score_cards_results(definition_id, add_history_entry): the results
\* of the definition are recomputed and a history entry is added when asked
run_refresh_score_cards_results(d, add_history_entry) ==
    IF add_history_entry
    THEN [d EXCEPT !.has_results = TRUE, !.history = Append(@, Len(@) + 1)]
    ELSE [d EXCEPT !.has_results = TRUE]

\* the calls recalculate_dashboard makes after the lookup: the refresh of the
\* definition with a history entry, then, once the refresh has returned, the
\* cached score card with the definition
recalculate_calls_card_first(dashboard_id, refresh_ok) ==
    << Call("as_cached_score_card", dashboard_id, [include_definition |-> TRUE]),
       Call("run_refresh_score_cards_results", dashboard_id,
            [add_history_entry |-> TRUE]) >>

recalculate_calls(dashboard_id, refresh_ok) ==
    <<Call("run_refresh_score_cards_results", dashboard_id,
           [add_history_entry |-> TRUE])>> \o
    ( IF refresh_ok
      THEN <<Call("as_cached_score_card", dashboard_id, [include_definition |-> TRUE])>>
      ELSE <<>> )

\* an exception no handler catches is answered as a server error
HTTP_500_INTERNAL_SERVER_ERROR == 500

\* POST /dashboards/{dashboard_id}/recalculate; refresh_ok: the refresh returns
\* (otherwise it raises, and the exception leaves the handler)
recalculate_dashboard(dashboard_id, refresh_ok) ==
    LET req == [dashboard_id |-> dashboard_id]
        v == validate_dashboard_id(store, dashboard_id)
        refreshed == run_refresh_score_cards_results(v.dashboard[1], TRUE)
    IN  IF ~v.ok
        THEN Handled("recalculate_dashboard", req, v.status, ErrorBody, v.calls, store)
        ELSE IF ~refresh_ok
        THEN Handled("recalculate_dashboard", req, HTTP_500_INTERNAL_SERVER_ERROR,
                     ErrorBody, v.calls \o recalculate_calls(dashboard_id, FALSE), store)
        ELSE /\ Len(v.dashboard[1].history) < MaxHistory
             /\ Handled("recalculate_dashboard", req, HTTP_200_OK,
                        [message |-> "Dashboard scores recalculated successfully",
                         dashboard |-> format_score_card(
                                          as_cached_score_card(refreshed, TRUE))],
                        v.calls \o recalculate_calls(dashboard_id, TRUE),
                        [store EXCEPT ![dashboard_id] = Some(refreshed)])

----------------------------------------------------------------------------
(* Filter options *)

\* rows the filter-value query returns for a project: (category, value)
FilterValueRows(project_code) ==
    IF project_code = "P1"
    THEN << [category |-> data_source, value |-> "postgres"],
            [category |-> table_groups_name, value |-> "demo"],
            [category |-> data_source, value |-> "snowflake"] >>
    ELSE <<>>

\* rows the column-hierarchy query returns for a project
ColumnRows(project_code) ==
    IF project_code = "P1"
    THEN << [column_id |-> "c1", column_name |-> "id", table_id |-> "t1",
             table_name |-> "orders", table_group_id |-> "g1",
             table_group_name |-> "demo"] >>
    ELSE <<>>

\* get_filter_field_values: the rows grouped by category, in the order of the rows
get_filter_field_values(project_code) ==
    LET results == FilterValueRows(project_code)
        of(cat) == LET in_cat(row) == row.category = cat
                       rows == SelectSeq(results, in_cat)
                   IN  [i \in 1..Len(rows) |-> rows[i].value]
    IN  [cat \in { results[i].category : i \in 1..Len(results) } |-> of(cat)]

\* get_column_hierarchy: one ColumnHierarchy per row
get_column_hierarchy(project_code) == ColumnRows(project_code)

filter_fields_metadata ==
    << [field |-> table_groups_name, label |-> "Table Group"],
       [field |-> data_location, label |-> "Data Location"],
       [field |-> data_source, label |-> "Data Source"],
       [field |-> source_system, label |-> "Source System"],
       [field |-> source_process, label |-> "Source Process"],
       [field |-> business_domain, label |-> "Business Domain"],
       [field |-> stakeholder_group, label |-> "Stakeholder Group"],
       [field |-> transform_level, label |-> "Transform Level"],
       [field |-> data_product, label |-> "Data Product"] >>

category_options_filterable ==
    [i \in 1..Len(filter_fields_metadata) |->
        [value |-> filter_fields_metadata[i].field,
         label |-> filter_fields_metadata[i].label]]

category_options ==
    << [value |-> table_groups_name, label |-> "Table Group"],
       [value |-> data_location, label |-> "Data Location"],
       [value |-> data_source, label |-> "Data Source"],
       [value |-> source_system, label |-> "Source System"],
       [value |-> source_process, label |-> "Source Process"],
       [value |-> business_domain, label |-> "Business Domain"],
       [value |-> stakeholder_group, label |-> "Stakeholder Group"],
       [value |-> transform_level, label |-> "Transform Level"],
       [value |-> dq_dimension, label |-> "Quality Dimension"],
       [value |-> data_product, label |-> "Data Product"] >>

score_grouping_options ==
    << [value |-> column_name, label |-> "Column"],
       [value |-> table_name, label |-> "Table"],
       [value |-> dq_dimension, label |-> "Quality Dimension"],
       [value |-> semantic_data_type, label |-> "Semantic Data Type"],
       [value |-> table_groups_name, label |-> "Table Group"],
       [value |-> data_location, label |-> "Data Location"],
       [value |-> data_source, label |-> "Data Source"],
       [value |-> source_system, label |-> "Source System"],
       [value |-> source_process, label |-> "Source Process"],
       [value |-> business_domain, label |-> "Business Domain"],
       [value |-> stakeholder_group, label |-> "Stakeholder Group"],
       [value |-> transform_level, label |-> "Transform Level"],
       [value |-> data_product, label |-> "Data Product"] >>

score_type_options ==
    << [value |-> "score", label |-> "Total Score"],
       [value |-> "cde_score", label |-> "CDE Score"] >>

\* the gates of the two dynamic parts of the filter options
fetches_filter_values(include_filter_values, include_columns) == include_filter_values

fetches_columns_with_values(include_filter_values, include_columns) ==
    include_columns \/ include_filter_values

fetches_columns(include_filter_values, include_columns) == include_columns

\* GET /filter-options
get_dashboard_filter_options(project_code, include_filter_values, include_columns, include_category_options, include_score_grouping_options, include_score_type_options) ==
    LET req == [project_code |-> project_code,
                include_filter_values |-> include_filter_values,
                include_columns |-> include_columns,
                include_category_options |-> include_category_options,
                include_score_grouping_options |-> include_score_grouping_options,
                include_score_type_options |-> include_score_type_options]
        v == validate_project_code(project_code)
        values_wanted == fetches_filter_values(include_filter_values, include_columns)
        columns_wanted == fetches_columns(include_filter_values, include_columns)
    IN  IF ~v.ok
        THEN Handled("get_dashboard_filter_options", req, v.status, ErrorBody, v.calls, store)
        ELSE Handled("get_dashboard_filter_options", req, HTTP_200_OK,
                [filter_fields_metadata |->
                    IF include_filter_values THEN filter_fields_metadata ELSE <<>>,
                 filter_values |->
                    IF values_wanted THEN get_filter_field_values(project_code) ELSE <<>>,
                 columns |->
                    IF columns_wanted THEN get_column_hierarchy(project_code) ELSE <<>>,
                 category_options |->
                    IF include_category_options THEN category_options ELSE <<>>,
                 score_grouping_options |->
                    IF include_score_grouping_options THEN score_grouping_options ELSE <<>>,
                 score_type_options |->
                    IF include_score_type_options THEN score_type_options ELSE <<>>],
                v.calls \o
                ( IF values_wanted
                  THEN <<Call("fetch_all_from_db", project_code, "filter_values")>>
                  ELSE <<>> ) \o
                ( IF columns_wanted
                  THEN <<Call("fetch_all_from_db", project_code, "columns")>>
                  ELSE <<>> ),
                store)

----------------------------------------------------------------------------
(* Requests in flight: get_db_session and the worker threads.                *)
(* get_db_session and the handlers are plain (not async) functions, so the    *)
(* part of get_db_session before its yield, the handler, and the part after   *)
(* the yield run as three tasks on worker threads of the framework's pool; a  *)
(* task is given the worker that became idle last.  The current session is    *)
(* thread-local: each worker thread has its own _current_session_wrapper.value *)

Workers == <<"w1", "w2">>
WorkerSet == SeqToSet(Workers)
InFlight == {"r1", "r2"}

\* the requests in flight all name this dashboard
TargetId == "d1"

FlightOps ==
    { "get_dashboard", "update_dashboard", "recalculate_dashboard",
      "get_dashboard_breakdown", "get_dashboard_issues", "delete_dashboard" }

\* the handlers the race with a concurrent delete is about
FetchAndUseOps == FlightOps \ {"delete_dashboard"}

FlightRequests ==
    { [op |-> op, include_history |-> h] :
        op \in FlightOps \ {"get_dashboard"}, h \in {FALSE} }
    \cup { [op |-> "get_dashboard", include_history |-> h] : h \in BOOLEAN }

\* the update body of the requests in flight
FlightUpdate ==
    [name |-> Some("b"), total_score |-> None, cde_score |-> None, category |-> None,
     filters |-> None, group_by_field |-> None]

NotArrived ==
    [phase |-> "none", op |-> "none", include_history |-> FALSE, worker |-> None,
     dashboard |-> None, seen |-> <<>>, vanished |-> FALSE, status |-> 0, body |-> <<>>]

NoFlight ==
    /\ slot = [w \in WorkerSet |-> None]
    /\ idle = Workers
    /\ session = [r \in InFlight |-> "none"]
    /\ rq = [r \in InFlight |-> NotArrived]

\* a task of request r starts on the worker that became idle last
run_in_threadpool(r, from, to) ==
    /\ rq[r].phase = from
    /\ idle # <<>>
    /\ idle' = SubSeq(idle, 1, Len(idle) - 1)
    /\ rq' = [rq EXCEPT ![r] = [@ EXCEPT !.phase = to, !.worker = Some(idle[Len(idle)])]]

\* get_current_session(), called on the worker thread that runs r's task
get_current_session(r) == slot[rq[r].worker[1]]

\* a request arrives and the task of get_db_session up to its yield starts
get_db_session_start(r, req) ==
    /\ rq[r].phase = "none"
    /\ idle # <<>>
    /\ idle' = SubSeq(idle, 1, Len(idle) - 1)
    /\ rq' = [rq EXCEPT ![r] = [@ EXCEPT !.phase = "opening", !.op = req.op,
                                         !.include_history = req.include_history,
                                         !.worker = Some(idle[Len(idle)])]]
    /\ UNCHANGED <<store, last, nreq, probe, slot, session>>

\* session = DBSession(); _current_session_wrapper.value = session; yield session
get_db_session_yield(r) ==
    /\ rq[r].phase = "opening"
    /\ session' = [session EXCEPT ![r] = "open"]
    /\ slot' = [slot EXCEPT ![rq[r].worker[1]] = Some(r)]
    /\ idle' = Append(idle, rq[r].worker[1])
    /\ rq' = [rq EXCEPT ![r] = [@ EXCEPT !.phase = "ready", !.worker = None]]
    /\ UNCHANGED <<store, last, nreq, probe>>

\* the handler starts on a worker thread
handler_start(r) ==
    /\ run_in_threadpool(r, "ready", "fetching")
    /\ UNCHANGED <<store, last, nreq, probe, slot, session>>

\* the handler ends: its worker is idle again
handler_end(r, seen, vanished, status, body, st) ==
    /\ idle' = Append(idle, rq[r].worker[1])
    /\ rq' = [rq EXCEPT ![r] = [@ EXCEPT !.phase = "ended", !.worker = None,
                                         !.seen = seen, !.vanished = vanished,
                                         !.status = status, !.body = body]]
    /\ store' = st
    /\ UNCHANGED <<last, nreq, probe, slot, session>>

\* validate_dashboard_id(dashboard_id, db): ScoreDefinition.get works on the
\* current session of the thread; without one the call fails
handler_fetch(r) ==
    LET v == validate_dashboard_id(store, TargetId)
        seen == Append(rq[r].seen, get_current_session(r))
    IN  /\ rq[r].phase = "fetching"
        /\ IF get_current_session(r) = None
           THEN handler_end(r, seen, FALSE, HTTP_500_INTERNAL_SERVER_ERROR, ErrorBody, store)
           ELSE IF ~v.ok
           THEN handler_end(r, seen, FALSE, v.status, ErrorBody, store)
           ELSE /\ rq' = [rq EXCEPT ![r] = [@ EXCEPT !.phase = "using", !.seen = seen,
                                                    !.dashboard = v.dashboard]]
                /\ UNCHANGED <<store, last, nreq, probe, slot, idle, session>>

\* the rest of the handler, on the dashboard validate_dashboard_id returned.
\* The dashboard has vanished when a concurrent delete removed it since; the
\* engine then works on the object the handler holds or fails (engine_error),
\* and the handler catches no exception.
handler_use(r, engine_error) ==
    LET fetched == rq[r].dashboard[1]
        seen == Append(rq[r].seen, get_current_session(r))
        vanished == store[TargetId] = None
        definitions == ScoreDefinition_all(store, Some(fetched.project_code), None,
                                           HistoryWindow)
        read == IF reloads_with_history(rq[r].include_history)
                THEN reloaded(definitions, TargetId, fetched)
                ELSE fetched
        updated == [updated_fields(fetched, FlightUpdate) EXCEPT
                      !.criteria = updated_criteria(fetched, FlightUpdate)]
        refreshed == IF vanished
                     THEN fetched
                     ELSE run_refresh_score_cards_results(store[TargetId][1], TRUE)
    IN  /\ rq[r].phase = "using"
        /\ engine_error => vanished
        /\ IF engine_error
           THEN handler_end(r, seen, vanished, HTTP_500_INTERNAL_SERVER_ERROR,
                            ErrorBody, store)
           ELSE CASE rq[r].op = "get_dashboard" ->
                       handler_end(r, seen, vanished, HTTP_200_OK,
                                   format_score_card(as_cached_score_card(read, TRUE)),
                                   store)
                  [] rq[r].op = "update_dashboard" ->
                       handler_end(r, seen, vanished, HTTP_200_OK,
                                   format_score_card(as_cached_score_card(updated, TRUE)),
                                   IF vanished THEN store
                                   ELSE [store EXCEPT ![TargetId] = Some(updated)])
                  [] rq[r].op = "recalculate_dashboard" ->
                       /\ Len(refreshed.history) <= MaxHistory
                       /\ handler_end(r, seen, vanished, HTTP_200_OK,
                                      [message |-> "Dashboard scores recalculated successfully",
                                       dashboard |-> format_score_card(
                                                        as_cached_score_card(refreshed, TRUE))],
                                      IF vanished THEN store
                                      ELSE [store EXCEPT ![TargetId] = Some(refreshed)])
                  [] rq[r].op \in {"get_dashboard_breakdown", "get_dashboard_issues"} ->
                       handler_end(r, seen, vanished, HTTP_200_OK,
                                   <<[category |-> dq_dimension, score_type |-> "score"]>>,
                                   store)
                  [] rq[r].op = "delete_dashboard" ->
                       handler_end(r, seen, vanished, HTTP_204_NO_CONTENT, <<>>,
                                   [store EXCEPT ![TargetId] = None])

\* the handler has returned or raised: the task of get_db_session after its
\* yield starts on a worker thread
get_db_session_resume(r) ==
    /\ run_in_threadpool(r, "ended", "closing")
    /\ UNCHANGED <<store, last, nreq, probe, slot, session>>

\* finally: _current_session_wrapper.value = None; session.close()
get_db_session_finally(r) ==
    /\ rq[r].phase = "closing"
    /\ slot' = [slot EXCEPT ![rq[r].worker[1]] = None]
    /\ session' = [session EXCEPT ![r] = "closed"]
    /\ idle' = Append(idle, rq[r].worker[1])
    /\ rq' = [rq EXCEPT ![r] = [@ EXCEPT !.phase = "done", !.worker = None]]
    /\ UNCHANGED <<store, last, nreq, probe>>


----------------------------------------------------------------------------
(* Requests and the specification *)

\* The scoring store is a database of its own: the service starts on the
\* definitions it holds.  A definition has results once a score card was saved
\* to the cache or a refresh ran, and a history entry per refresh with one.
SeedDefinitions(id) ==
    IF id = "d1"
    THEN { [id |-> "d1", project_code |-> "P1", name |-> "a", total_score |-> TRUE,
            cde_score |-> FALSE, category |-> None,
            criteria |-> from_filters(<<filter_1, filter_2>>, FALSE),
            history |-> <<>>, has_results |-> FALSE] }
    ELSE { [id |-> id, project_code |-> "P1", name |-> "b", total_score |-> TRUE,
            cde_score |-> TRUE, category |-> Some("dq_dimension"),
            criteria |-> from_filters(<<>>, TRUE),
            history |-> <<1>>, has_results |-> TRUE],
           [id |-> id, project_code |-> "P2", name |-> "a", total_score |-> FALSE,
            cde_score |-> FALSE, category |-> None,
            criteria |-> from_filters(<<filter_1>>, TRUE),
            history |-> <<>>, has_results |-> TRUE] }

InitStores ==
    { st \in [DashIds -> {None} \cup UNION { {Some(d) : d \in SeedDefinitions(i)} : i \in DashIds }] :
        \A i \in DashIds : st[i] # None => st[i][1].id = i }

DashboardCreates ==
    [name : {"a"}, project_code : {"P2", "NOPE"}, total_score : {TRUE},
     cde_score : {FALSE}, category : {None, Some("data_source")},
     filters : FilterLists, group_by_field : BOOLEAN]

\* update bodies: without filters, every combination of the other fields; with
\* filters, every group_by_field, and the scalar fields all absent or all present
DashboardUpdates ==
    [name : {None, Some("b")}, total_score : {None, Some(FALSE)},
     cde_score : {None, Some(TRUE)}, category : {None, Some("data_source")},
     filters : {None},
     group_by_field : {None, Some(TRUE), Some(FALSE)}]
    \cup
    [name : {None}, total_score : {None}, cde_score : {None}, category : {None},
     filters : {Some(<<>>), Some(<<filter_2, filter_1>>)},
     group_by_field : {None, Some(TRUE), Some(FALSE)}]
    \cup
    [name : {Some("b")}, total_score : {Some(FALSE)}, cde_score : {Some(TRUE)},
     category : {Some("data_source")},
     filters : {Some(<<>>), Some(<<filter_2, filter_1>>)},
     group_by_field : {None, Some(TRUE), Some(FALSE)}]

ScoreTypes == {"score", "cde_score"}
GroupByInputs == {table_groups_name, dq_dimension, table_group, semantic_data_typo}

Init ==
    /\ store \in InitStores
    /\ last = NoRequest
    /\ nreq = 0
    /\ probe = NoProbe
    /\ NoFlight

CreateDashboard == \E dashboard \in DashboardCreates : create_dashboard(dashboard)

ListDashboards ==
    \E project_code \in {None} \cup {Some(c) : c \in ProjectCodes},
       name_filter \in {None, Some("a")},
       include_scores \in BOOLEAN, include_history \in BOOLEAN :
        list_dashboards(project_code, name_filter, include_scores, include_history)

GetDashboard ==
    \E dashboard_id \in IdTokens, include_history \in BOOLEAN :
        get_dashboard(dashboard_id, include_history)

GetDashboardBreakdown ==
    \E dashboard_id \in IdTokens, score_type \in ScoreTypes, group_by \in GroupByInputs :
        get_dashboard_breakdown(dashboard_id, score_type, group_by)

GetDashboardIssues ==
    \E dashboard_id \in IdTokens, group_by \in GroupByInputs :
        get_dashboard_issues(dashboard_id, "cde_score", group_by, "demo")

UpdateDashboard ==
    \E dashboard_id \in IdTokens, updates \in DashboardUpdates :
        update_dashboard(dashboard_id, updates)

DeleteDashboard == \E dashboard_id \in IdTokens : delete_dashboard(dashboard_id)

RecalculateDashboard ==
    \E dashboard_id \in IdTokens, refresh_ok \in BOOLEAN :
        recalculate_dashboard(dashboard_id, refresh_ok)

GetDashboardFilterOptions ==
    \E project_code \in ProjectCodes, f1 \in BOOLEAN, f2 \in BOOLEAN, f3 \in BOOLEAN,
       f4 \in BOOLEAN, f5 \in BOOLEAN :
        get_dashboard_filter_options(project_code, f1, f2, f3, f4, f5)

Next ==
    \/ CreateDashboard
    \/ ListDashboards
    \/ GetDashboard
    \/ GetDashboardBreakdown
    \/ GetDashboardIssues
    \/ UpdateDashboard
    \/ DeleteDashboard
    \/ RecalculateDashboard
    \/ GetDashboardFilterOptions

Spec == Init /\ [][Next]_vars

\* the normalisation applied to tokens of every shape
InitNormalize ==
    /\ store = [i \in DashIds |-> None]
    /\ last = NoRequest
    /\ nreq = 0
    /\ probe = NoProbe
    /\ NoFlight

NextNormalize ==
    \/ \E t \in InputTokens : NormalizeOnce(t)
    \/ NormalizeAgain

SpecNormalize == InitNormalize /\ [][NextNormalize]_vars

\* requests in flight at once on the dashboard TargetId
InitInFlight ==
    /\ store = [i \in DashIds |->
                  IF i = TargetId THEN Some(CHOOSE d \in SeedDefinitions(i) : TRUE)
                  ELSE None]
    /\ last = NoRequest
    /\ nreq = 0
    /\ probe = NoProbe
    /\ NoFlight

OpenSession == \E r \in InFlight, req \in FlightRequests : get_db_session_start(r, req)

SessionOpened == \E r \in InFlight : get_db_session_yield(r)

HandlerStarts == \E r \in InFlight : handler_start(r)

HandlerFetches == \E r \in InFlight : handler_fetch(r)

HandlerUses == \E r \in InFlight, engine_error \in BOOLEAN : handler_use(r, engine_error)

CloseSession == \E r \in InFlight : get_db_session_resume(r)

SessionClosed == \E r \in InFlight : get_db_session_finally(r)

NextInFlight ==
    \/ OpenSession
    \/ SessionOpened
    \/ HandlerStarts
    \/ HandlerFetches
    \/ HandlerUses
    \/ CloseSession
    \/ SessionClosed

SpecInFlight == InitInFlight /\ [][NextInFlight]_vars

----------------------------------------------------------------------------
(* Properties *)

CallsIn(calls, fns) == { i \in 1..Len(calls) : calls[i].fn \in fns }
CallsTo(fns) == CallsIn(last.calls, fns)

AliasTokens == {table_group, table_space_group, tablegroup}

GroupByOps == {"get_dashboard_breakdown", "get_dashboard_issues"}

\* C1: on the breakdown and the issues endpoint, for an existing dashboard, a
\* group_by outside the vocabulary and its aliases is answered 400 with no
\* breakdown or issues computation, and group_by = table_group is accepted and
\* the engine is called with the category table_groups_name.
C1_TypoRejected400AliasAccepted ==
    ( /\ last.op \in GroupByOps
      /\ last.req.dashboard_id \in DashIds
      /\ store[last.req.dashboard_id] # None )
    =>
    /\ last.req.group_by \notin GroupByCategory \cup AliasTokens
        => /\ last.status = HTTP_400_BAD_REQUEST
           /\ CallsTo({"get_score_card_breakdown", "get_score_card_issues"}) = {}
    /\ last.req.group_by = table_group
        => /\ last.status = HTTP_200_OK
           /\ \E i \in CallsTo({"get_score_card_breakdown", "get_score_card_issues"}) :
                last.calls[i].args.group_by = table_groups_name

Column_Name == <<"C", "o", "l", "u", "m", "n", "_", "N", "a", "m", "e">>
Table_Group_padded == <<" ", "T", "a", "b", "l", "e", "_", "G", "r", "o", "u", "p", " ">>

NormalizedTo(r, category) == r.ok /\ r.value = category

RejectedAsInvalid(r, t) ==
    /\ ~r.ok
    /\ r.status = HTTP_400_BAD_REQUEST
    /\ r.value = t
    /\ Len(r.listed) = 13
    /\ SeqToSet(r.listed) = GroupByCategory

C3_NormalizeIdempotent ==
    probe.t \in GroupByCategory =>
        /\ probe.phase # "idle" => probe.r1.ok
        /\ probe.phase = "twice" => probe.r2 = probe.r1

C3_Witness ==
    /\ probe.phase = "twice"
    /\ probe.t = data_product
    /\ probe.r2 = probe.r1
    /\ probe.r1.value = data_product

C5_ReadWithoutRecalculation ==
    ( /\ last.op = "get_dashboard"
      /\ last.req.include_history
      /\ last.req.dashboard_id \in DashIds
      /\ store[last.req.dashboard_id] # None
      /\ store[last.req.dashboard_id][1].history = <<>> )
    =>
    /\ last.status = HTTP_200_OK
    /\ last.body.id = last.req.dashboard_id
    /\ last.body.history = <<>>

C5_Witness ==
    /\ last.op = "get_dashboard"
    /\ last.req.include_history
    /\ last.req.dashboard_id = "d1"
    /\ store["d1"] # None
    /\ store["d1"][1].history = <<>>
    /\ ~store["d1"][1].has_results
    /\ store["d2"] # None
    /\ store["d2"][1].project_code = "P1"
    /\ store["d2"][1].history # <<>>
    /\ last.status = HTTP_200_OK
    /\ last.body.history = <<>>


\* C6: an update that carries filters (the empty list included) replaces the
\* criteria of the dashboard by criteria built from exactly those filters, with
\* the request's group_by_field when one is supplied and true when none is.
C6_FiltersReplaceCriteria ==
    ( /\ last.op = "update_dashboard"
      /\ last.status = HTTP_200_OK
      /\ last.req.updates.filters # None )
    =>
    store[last.req.dashboard_id][1].criteria =
        [filters |-> last.req.updates.filters[1],
         group_by_field |-> IF last.req.updates.group_by_field # None
                            THEN last.req.updates.group_by_field[1]
                            ELSE TRUE]

C6_Witness ==
    /\ last.op = "update_dashboard"
    /\ last.status = HTTP_200_OK
    /\ last.req.dashboard_id = "d1"
    /\ last.req.updates.filters = Some(<<>>)
    /\ last.req.updates.group_by_field = None
    /\ last.req.updates.name = None
    /\ store["d1"][1].name = "a"
    /\ store["d1"][1].criteria = [filters |-> <<>>, group_by_field |-> TRUE]

\* C7: an update without filters leaves the criteria of the dashboard as they
\* were, whatever name, total_score, cde_score, category and group_by_field it
\* supplies, and every field whose request value is absent keeps its value.
C7_NoFiltersKeepsCriteria ==
    [][ ( /\ last'.op = "update_dashboard"
          /\ last'.status = HTTP_200_OK
          /\ last'.req.updates.filters = None )
        =>
        LET id == last'.req.dashboard_id
            updates == last'.req.updates
            before == store[id][1]
            after == store'[id][1]
        IN  /\ store[id] # None /\ store'[id] # None
            /\ after.criteria = before.criteria
            /\ updates.name = None => after.name = before.name
            /\ updates.total_score = None => after.total_score = before.total_score
            /\ updates.cde_score = None => after.cde_score = before.cde_score
            /\ updates.category = None => after.category = before.category
            /\ after.id = before.id
            /\ after.project_code = before.project_code
            /\ after.history = before.history
            /\ after.has_results = before.has_results
            /\ \A other \in DashIds \ {id} : store'[other] = store[other]
      ]_vars

C7_Witness ==
    /\ last.op = "update_dashboard"
    /\ last.status = HTTP_200_OK
    /\ last.req.dashboard_id = "d1"
    /\ last.req.updates.filters = None
    /\ last.req.updates.group_by_field = Some(TRUE)
    /\ last.req.updates.name = Some("b")
    /\ last.req.updates.category = None
    /\ store["d1"][1].name = "b"
    /\ store["d1"][1].category = None
    /\ store["d1"][1].criteria = [filters |-> <<filter_1, filter_2>>, group_by_field |-> FALSE]

FilterOptionQueries(kind) ==
    { i \in CallsTo({"fetch_all_from_db"}) : last.calls[i].args = kind }

\* C8: in a filter-options request for an existing project each part of the
\* response is computed if its own include flag is true and is empty otherwise,
\* whatever the other flags: the filter-value query is issued iff
\* include_filter_values, the column query iff include_columns; with the five
\* flags false the response is OK with every collection empty and no query.
C8_FlagsOrthogonal ==
    ( /\ last.op = "get_dashboard_filter_options"
      /\ last.req.project_code \in Projects )
    =>
    /\ last.status = HTTP_200_OK
    /\ FilterOptionQueries("filter_values") # {} <=> last.req.include_filter_values
    /\ FilterOptionQueries("columns") # {} <=> last.req.include_columns
    /\ Cardinality(FilterOptionQueries("filter_values")) <= 1
    /\ Cardinality(FilterOptionQueries("columns")) <= 1
    /\ last.body.filter_fields_metadata =
         IF last.req.include_filter_values THEN filter_fields_metadata ELSE <<>>
    /\ last.body.filter_values =
         IF last.req.include_filter_values
         THEN get_filter_field_values(last.req.project_code) ELSE <<>>
    /\ last.body.columns =
         IF last.req.include_columns
         THEN get_column_hierarchy(last.req.project_code) ELSE <<>>
    /\ last.body.category_options =
         IF last.req.include_category_options THEN category_options ELSE <<>>
    /\ last.body.score_grouping_options =
         IF last.req.include_score_grouping_options THEN score_grouping_options ELSE <<>>
    /\ last.body.score_type_options =
         IF last.req.include_score_type_options THEN score_type_options ELSE <<>>
    /\ ( /\ ~last.req.include_filter_values
         /\ ~last.req.include_columns
         /\ ~last.req.include_category_options
         /\ ~last.req.include_score_grouping_options
         /\ ~last.req.include_score_type_options )
       => /\ \A part \in DOMAIN last.body : last.body[part] = <<>>
          /\ CallsTo({"fetch_all_from_db"}) = {}

C8_Witness ==
    /\ last.op = "get_dashboard_filter_options"
    /\ last.req.project_code = "P1"
    /\ last.req.include_filter_values
    /\ ~last.req.include_columns
    /\ ~last.req.include_category_options
    /\ last.req.include_score_type_options
    /\ last.status = HTTP_200_OK
    /\ last.body.columns = <<>>
    /\ last.body.filter_values # <<>>
    /\ last.body.score_type_options # <<>>

\* C9: a filter-options request for a project code that does not exist fails
\* with 404 for every combination of the five flags, before the filter-value or
\* the column query is issued, and returns no partial result.
C9_UnknownProjectFailsEarly ==
    ( /\ last.op = "get_dashboard_filter_options"
      /\ last.req.project_code \notin Projects )
    =>
    /\ last.status = HTTP_404_NOT_FOUND
    /\ last.body = ErrorBody
    /\ CallsTo({"fetch_all_from_db"}) = {}

C9_Witness ==
    /\ last.op = "get_dashboard_filter_options"
    /\ last.req.project_code = "NOPE"
    /\ last.req.include_filter_values
    /\ last.req.include_columns
    /\ last.req.include_category_options
    /\ last.req.include_score_grouping_options
    /\ last.req.include_score_type_options
    /\ last.status = HTTP_404_NOT_FOUND

DashboardIdOps ==
    { "get_dashboard", "update_dashboard", "delete_dashboard", "recalculate_dashboard",
      "get_dashboard_breakdown", "get_dashboard_issues" }

\* C10: on every endpoint that takes a dashboard id a malformed id is answered
\* 400 without a store lookup, a well-formed id of no dashboard is answered 404,
\* and in both cases no engine operation is invoked.
C10_DashboardIdValidated ==
    [][ last'.op \in DashboardIdOps =>
        LET id == last'.req.dashboard_id
            malformed == id = MalformedId
            unknown == id \in DashIds /\ store[id] = None
        IN  /\ malformed =>
                /\ last'.status = HTTP_400_BAD_REQUEST
                /\ CallsIn(last'.calls, {"ScoreDefinition.get", "ScoreDefinition.all"}) = {}
            /\ unknown => last'.status = HTTP_404_NOT_FOUND
            /\ (malformed \/ unknown) =>
                /\ CallsIn(last'.calls, EngineOperations) = {}
                /\ store' = store
      ]_vars

\* C13: a request that fails validation has no side effect.  A create request
\* with an unknown project_code is answered 404 without criteria being built, a
\* definition saved or a score card computed or cached, and the stored dashboards
\* are unchanged; a breakdown or issues request with an invalid category is
\* refused and issues no breakdown or issues query.
C13_ValidationBeforeSideEffects ==
    [][ /\ ( /\ last'.op = "create_dashboard"
             /\ last'.req.project_code \notin Projects )
           => /\ last'.status = HTTP_404_NOT_FOUND
              /\ CallsIn(last'.calls, {"from_filters", "save", "as_score_card",
                                       "as_cached_score_card"}) = {}
              /\ store' = store
        /\ ( /\ last'.op \in GroupByOps
             /\ last'.req.group_by \notin GroupByCategory \cup AliasTokens )
           => /\ last'.status \in {HTTP_400_BAD_REQUEST, HTTP_404_NOT_FOUND,
                                   HTTP_422_UNPROCESSABLE_ENTITY}
              /\ CallsIn(last'.calls, {"get_score_card_breakdown",
                                       "get_score_card_issues"}) = {}
              /\ store' = store
      ]_vars

C13_Witness ==
    /\ last.op = "create_dashboard"
    /\ last.req.project_code = "NOPE"
    /\ last.req.filters = <<filter_1, filter_2>>
    /\ last.status = HTTP_404_NOT_FOUND
    /\ store["d1"] = None
    /\ store["d2"] # None

OptionValues(options) == { options[i].value : i \in 1..Len(options) }

\* C14: the values of the grouping options are the 13 entries of the category
\* vocabulary, each once, and the values of the category options are that
\* vocabulary without column_name, table_name and semantic_data_type, each once.
C14_OptionTablesMirrorVocabulary ==
    ( /\ last.op = "get_dashboard_filter_options"
      /\ last.status = HTTP_200_OK )
    =>
    /\ SeqToSet(valid_categories) = GroupByCategory
    /\ Cardinality(GroupByCategory) = 13
    /\ last.req.include_score_grouping_options =>
        /\ OptionValues(last.body.score_grouping_options) = GroupByCategory
        /\ Len(last.body.score_grouping_options) = 13
    /\ last.req.include_category_options =>
        /\ OptionValues(last.body.category_options) =
             GroupByCategory \ {column_name, table_name, semantic_data_type}
        /\ Len(last.body.category_options) = 10
        /\ OptionValues(last.body.category_options) = CategoryLiteral

C14_Witness ==
    /\ last.op = "get_dashboard_filter_options"
    /\ last.status = HTTP_200_OK
    /\ last.req.include_score_grouping_options
    /\ last.req.include_category_options
    /\ Len(last.body.score_grouping_options) = 13
    /\ dq_dimension \in OptionValues(last.body.category_options)

\* C15: a recalculate request for an existing dashboard invokes the refresh for
\* that dashboard id exactly once, with the history-entry option on; when the
\* refresh returns, the cached score card with the definition is requested once,
\* after the refresh, and is the dashboard of the response; when the refresh
\* fails, no cached card is requested and the response is no success.
C15_RefreshThenCachedCard ==
    [][ ( /\ last'.op = "recalculate_dashboard"
          /\ last'.req.dashboard_id \in DashIds
          /\ store[last'.req.dashboard_id] # None )
        =>
        LET id == last'.req.dashboard_id
            calls == last'.calls
            refresh == CallsIn(calls, {"run_refresh_score_cards_results"})
            cached == CallsIn(calls, {"as_cached_score_card"})
        IN  /\ Cardinality(refresh) = 1
            /\ \A i \in refresh :
                /\ calls[i].on = id
                /\ calls[i].args = [add_history_entry |-> TRUE]
            /\ CallsIn(calls, {"as_score_card"}) = {}
            /\ last'.status \in {HTTP_200_OK, HTTP_500_INTERNAL_SERVER_ERROR}
            /\ last'.status = HTTP_200_OK =>
                /\ Cardinality(cached) = 1
                /\ \A i \in refresh, j \in cached :
                    /\ i < j
                    /\ calls[j].on = id
                    /\ calls[j].args = [include_definition |-> TRUE]
                /\ store'[id] # None
                /\ last'.body.dashboard =
                     format_score_card(as_cached_score_card(store'[id][1], TRUE))
                /\ last'.body.dashboard.id = id
                /\ Len(store'[id][1].history) = Len(store[id][1].history) + 1
            /\ last'.status # HTTP_200_OK =>
                /\ cached = {}
                /\ last'.body = ErrorBody
      ]_vars

C15_Witness ==
    /\ last.op = "recalculate_dashboard"
    /\ last.req.dashboard_id = "d1"
    /\ last.status = HTTP_200_OK
    /\ store["d1"][1].history = <<1>>
    /\ last.body.dashboard.history = <<1>>
    /\ last.body.dashboard.score = Some("cached")

\* C16: in a listing with include_scores or include_history true every item is
\* built from a fresh score card of its dashboard; a cached score card without
\* the definition is requested for a dashboard only when include_history is true
\* and the dashboard has history, and only the history of the item is taken from
\* it; with include_history false no cached card is requested.
C16_FreshCardsCachedHistoryOnly ==
    ( /\ last.op = "list_dashboards"
      /\ last.status = HTTP_200_OK
      /\ (last.req.include_scores \/ last.req.include_history) )
    =>
    LET fresh == CallsTo({"as_score_card"})
        cached == CallsTo({"as_cached_score_card"})
    IN  /\ { last.body[i].id : i \in 1..Len(last.body) }
             = { id \in DashIds : Matches(store, id, last.req.project_code,
                                          last.req.name_filter) }
        /\ \A i \in 1..Len(last.body) :
            LET item == last.body[i]
                d == store[item.id][1]
                merges == last.req.include_history /\ d.history # <<>>
            IN  /\ [item EXCEPT !.history = <<>>] = format_score_card(as_score_card(d))
                /\ item.history = IF merges
                                  THEN as_cached_score_card(d, FALSE).history
                                  ELSE <<>>
                /\ Cardinality({ j \in fresh : last.calls[j].on = item.id }) = 1
                /\ Cardinality({ j \in cached : last.calls[j].on = item.id })
                     = IF merges THEN 1 ELSE 0
        /\ \A j \in cached :
            /\ last.calls[j].args = [include_definition |-> FALSE]
            /\ \E i \in 1..Len(last.body) : last.body[i].id = last.calls[j].on
        /\ ~last.req.include_history => cached = {}

C16_Witness ==
    /\ last.op = "list_dashboards"
    /\ last.status = HTTP_200_OK
    /\ ~last.req.include_scores
    /\ last.req.include_history
    /\ Len(last.body) = 2
    /\ last.body[1].history = <<>>
    /\ last.body[2].history = <<1>>
    /\ last.body[2].categories = <<"fresh">>
    /\ Cardinality(CallsTo({"as_cached_score_card"})) = 1

\* C17: a read of one dashboard answers from a cached score card with the
\* definition and requests no fresh one; with include_history true the
\* definitions of the dashboard's project are listed first with a history window
\* of 50 and the listed definition with the same id is used; with include_history
\* false nothing is listed and the dashboard fetched by id is used.
C17_ReadFromCachedCard ==
    ( /\ last.op = "get_dashboard"
      /\ last.status = HTTP_200_OK )
    =>
    LET id == last.req.dashboard_id
        d == store[id][1]
        listed == CallsTo({"ScoreDefinition.all"})
        cached == CallsTo({"as_cached_score_card"})
    IN  /\ CallsTo({"as_score_card"}) = {}
        /\ Cardinality(cached) = 1
        /\ \A j \in cached :
            /\ last.calls[j].on = id
            /\ last.calls[j].args = [include_definition |-> TRUE]
        /\ last.req.include_history =>
            /\ Cardinality(listed) = 1
            /\ \A i \in listed :
                /\ last.calls[i].args.project_code = Some(d.project_code)
                /\ last.calls[i].args.last_history_items = 50
                /\ \A j \in cached : i < j
        /\ ~last.req.include_history => listed = {}
        /\ last.body.id = id
        /\ last.body = format_score_card(as_cached_score_card(d, TRUE))

C17_Witness ==
    /\ last.op = "get_dashboard"
    /\ last.status = HTTP_200_OK
    /\ last.req.dashboard_id = "d2"
    /\ last.req.include_history
    /\ Cardinality(CallsTo({"ScoreDefinition.all"})) = 1
    /\ store["d1"] # None
    /\ store["d1"][1].project_code = store["d2"][1].project_code
    /\ last.body.history = <<1>>
    /\ last.body.score = Some("cached")

\* the filter conditions handed to the criteria constructor are the given filters
CarriedVerbatim(call, filters, group_by_field) ==
    /\ Len(call.args.filters) = Len(filters)
    /\ \A k \in 1..Len(filters) :
        /\ call.args.filters[k].field = filters[k].field
        /\ call.args.filters[k].value = filters[k].value
        /\ call.args.filters[k].others = filters[k].others
    /\ call.args.group_by_field = group_by_field

\* C18: on create, and on update with filters, the filter conditions handed to
\* the criteria constructor have the length and the order of the request's
\* filters, each with the request's field, value and others; none is dropped,
\* reordered or refused for its field; on create group_by_field is passed as
\* given.
C18_FiltersCarriedVerbatim ==
    /\ ( /\ last.op = "create_dashboard"
         /\ last.req.project_code \in Projects )
       => /\ last.status = HTTP_201_CREATED
          /\ Cardinality(CallsTo({"from_filters"})) = 1
          /\ \A i \in CallsTo({"from_filters"}) :
                CarriedVerbatim(last.calls[i], last.req.filters, last.req.group_by_field)
          /\ store[last.body.id][1].criteria.filters = last.req.filters
    /\ ( /\ last.op = "update_dashboard"
         /\ last.req.dashboard_id \in DashIds
         /\ store[last.req.dashboard_id] # None
         /\ last.req.updates.filters # None )
       => /\ last.status = HTTP_200_OK
          /\ Cardinality(CallsTo({"from_filters"})) = 1
          /\ \A i \in CallsTo({"from_filters"}) :
                CarriedVerbatim(last.calls[i], last.req.updates.filters[1],
                                last.calls[i].args.group_by_field)
          /\ store[last.req.dashboard_id][1].criteria.filters
               = last.req.updates.filters[1]

C18_Witness ==
    /\ last.op = "create_dashboard"
    /\ last.status = HTTP_201_CREATED
    /\ last.req.filters = <<filter_2, filter_1>>
    /\ last.req.filters[1].field = "dq_dimension"
    /\ last.req.filters[1].others # <<>>
    /\ ~last.req.group_by_field
    /\ store[last.body.id][1].criteria
         = [filters |-> <<filter_2, filter_1>>, group_by_field |-> FALSE]

\* C11: the session opened for a request is released when the request
\* completes, after a successful response and after a handler that raised: once
\* the request has ended its session is closed, and no current-session slot
\* refers to that session any more.
C11_SessionReleasedOnEveryExit ==
    \A r \in InFlight :
        rq[r].phase = "done" =>
            /\ session[r] = "closed"
            /\ \A w \in WorkerSet : slot[w] # Some(r)

\* C12: when the dashboard a read, update, recalculate, breakdown or issues
\* handler fetched by id has been deleted by a concurrent request before the
\* handler uses it, the handler ends with 404 (stated for the handlers whose
\* calls all resolved their own session).
C12_VanishedDashboardIsNotFound ==
    \A r \in InFlight :
        ( /\ rq[r].phase \in {"ended", "closing", "done"}
          /\ rq[r].op \in FetchAndUseOps
          /\ rq[r].vanished
          /\ \A i \in 1..Len(rq[r].seen) : rq[r].seen[i] = Some(r) )
        => rq[r].status = HTTP_404_NOT_FOUND

\* C19: with several requests in flight, every engine or model call made while
\* a request is handled resolves the current session to the session opened for
\* that request, never to another request's session and never to an empty slot.
C19_CallsResolveOwnSession ==
    \A r \in InFlight :
        \A i \in 1..Len(rq[r].seen) : rq[r].seen[i] = Some(r)

====
